---- MODULE Spec2Model ----
(***************************************************************************)
(* A round-robin TCP load balancer in two variants: a thread-per-connection *)
(* variant (src/lbMultiThreading.py) and an asyncio variant                 *)
(* (src/lbasync.py).  The model covers the shared routing state             *)
(* (healthy_servers, rr_index), the health monitor (updateHealthyServers),  *)
(* the selector (find_backend_server) and the per-connection proxy          *)
(* (handle_client).  The variant is fixed when the process starts.          *)
(***************************************************************************)
EXTENDS Integers, Sequences, FiniteSets, TLC

\* ------------------------------------------------------------------ bounds
\* Processes that call find_backend_server() directly.
NumCallers == 6
\* Calls of find_backend_server() one caller makes one after the other.
MaxCalls == 4
\* Client connections handled by handle_client.
NumClients == 1
\* Response chunks a backend sends on one connection before it closes.
MaxChunks == 2
\* Callers of find_backend_server() that race with each other and the monitor.
NumRacers == 2

\* --------------------------------------------------------------- constants
\* backend_servers: the configured backends (host:port), in registration order.
backend_servers == <<"127.0.0.1:8080", "127.0.0.1:8081", "127.0.0.1:8082">>

Variants == {"threaded", "async"}

None == "None"
Unset == "unset"

Range(s) == {s[i] : i \in 1..Len(s)}

Backends == Range(backend_servers)

\* list(healthy_servers): the iteration order of a Python set is some
\* arrangement of its members, stable while the set is not modified.
Orders(S) ==
  {s \in [1..Cardinality(S) -> S] : \A i, j \in 1..Cardinality(S) : i # j => s[i] # s[j]}

Callers == 1..NumCallers
Clients == (NumCallers + 1)..(NumCallers + NumClients)
Procs == Callers \cup Clients

\* Lock holders: a process, the monitor thread, or nobody.
NoHolder == 0
MonitorThread == 0 - 1

VARIABLES
  variant,          \* which program runs: "threaded" or "async"
  healthy_servers,  \* the healthy set, held as the sequence list() would return
  rr_index,         \* the rotation cursor
  health_lock,      \* threaded: who holds health_lock (NoHolder when free)
  rr_lock,          \* threaded: who holds rr_lock (NoHolder when free)
  mon_pc,           \* the monitor's position: "probe", "update", "locked", "sleep"
  mon_i,            \* index into backend_servers of the server being probed
  response,         \* call_health_route's local: what the probe met, until it returns
  is_healthy,       \* the monitor's local: result of the last call_health_route
  pc,               \* per process, its position
  backend_server,   \* per process, find_backend_server's result
  servers_list,     \* per process, the snapshot taken under the lock
  calls,            \* calls of find_backend_server() the sequential caller has made
  client_alive,     \* per connection, the client's end is still there
  request,          \* per connection, the bytes the client sends
  first_read,       \* per connection, how much of the request the first read delivers
  data_received,    \* per connection, the request bytes the handler has captured
  connect_result,   \* per connection, "none", "connected" or "refused"
  backend_in,       \* per connection, the bytes the backend has received
  backend_eof,      \* per connection, the backend was told the request has ended
  backend_out,      \* per connection, the response chunks read from the backend
  client_out,       \* per connection, the bytes delivered to the client
  client_sock,      \* per connection, the client socket: "open" or "closed"
  backend_sock,     \* per connection, "none", "created", "connected" or "closed"
  raised,           \* per connection, handle_client ended by raising
  pass_result,      \* per backend, what its probe met in the current pass
  ever_removed,     \* backends the monitor has removed at least once
  history,          \* backends returned since the healthy set last changed
  n_select,         \* per connection, calls of find_backend_server() made for it
  n_connect,        \* per connection, backend connects attempted for it
  write_failed,     \* per connection, a write of the 503 or 502 to the client failed
  ending,           \* per connection, how the backend's response ended: "eof", "drop"
  first_run,        \* the outcome of the same connection under the other variant
  ever_probed,      \* backends whose probe has completed at least once
  ever_passed       \* backends whose probe has succeeded at least once

routing_vars == <<healthy_servers, rr_index, health_lock, rr_lock>>
monitor_vars == <<mon_pc, mon_i, response, is_healthy>>
select_vars == <<pc, backend_server, servers_list, calls>>
\* What an observer of the run has recorded; no operation reads it.
session_vars == <<n_select, n_connect, write_failed, ending>>
startup_vars == <<ever_probed, ever_passed>>
observed_vars ==
  <<pass_result, ever_removed, history, session_vars, first_run, startup_vars>>

conn_vars == <<client_alive, request, first_read, data_received, connect_result,
               backend_in, backend_eof, backend_out, client_out, client_sock,
               backend_sock, raised>>

vars == <<variant, routing_vars, monitor_vars, select_vars, conn_vars, observed_vars>>

HealthySet == Range(healthy_servers)

\* ------------------------------------------------------------ health probe
\* What a probe of a backend can meet.  "raise" is an exception that escapes
\* call_health_route (its finally-clause close), or one raised while the
\* result is applied; the other kinds are caught inside call_health_route.
ProbeResponses == {"200 OK", "non-200", "timeout", "refused", "raise"}

\* A selector that falls back to the first configured backend.
EmptyResultFallback == backend_servers[1]

\* `return None`: what find_backend_server returns when no backend is healthy.
EmptyResult == None

\* A probe that takes any HTTP response for success.
call_health_route_lenient(r) == r \in {"200 OK", "non-200"}

\* call_health_route(server): True exactly for a response carrying 200.
call_health_route(r) == r = "200 OK"

\* An update that adds the host instead of the (host, port) pair.
ApplyProbeHostOnly(hs, server, healthy) ==
  IF healthy /\ "127.0.0.1" \notin Range(hs)
    THEN {Append(hs, "127.0.0.1")}
    ELSE IF ~healthy /\ server \in Range(hs)
      THEN {SelectSeq(hs, LAMBDA x : x # server)}
      ELSE {hs}

\* The body of the `with health_lock:` / `async with state_lock:` block of
\* updateHealthyServers: the possible values of healthy_servers afterwards.
ApplyProbe(hs, server, healthy) ==
  IF healthy /\ server \notin Range(hs)
    THEN Orders(Range(hs) \cup {server})
    ELSE IF ~healthy /\ server \in Range(hs)
      THEN {SelectSeq(hs, LAMBDA x : x # server)}
      ELSE {hs}

\* ---------------------------------------------------------------- selector
\* A cursor used as it is, without reducing it to the snapshot's length.
CursorIndexRaw(rr, n) == rr

\* rr_index %= servers_list_length
CursorIndex(rr, n) == rr % n

\* A cursor that advances by two.
CursorNextSkips(idx, n) == (idx + 2) % n

\* A cursor whose update is lost.
CursorNextLost(idx, n) == idx

\* rr_index = (rr_index + 1) % servers_list_length
CursorNext(idx, n) == (idx + 1) % n

\* What an index beyond the list raises.
IndexError == "IndexError"

\* Python list indexing is 0-based and raises beyond the end.
ListAt(list, idx) == IF idx \in 0..(Len(list) - 1) THEN list[idx + 1] ELSE IndexError

\* Where a process stands when it runs the emptiness check of
\* find_backend_server: inside `with health_lock:` (threaded), or at the
\* entry of the one-step `async with state_lock:` block (async).
CheckAt == IF variant = "threaded" THEN "check" ELSE "find"

\* Where a process goes when find_backend_server returns.
AfterFind(p) == IF p \in Callers THEN "returned" ELSE "selected"

\* The cursor step: index the snapshot, advance the cursor, return.
CursorStep(p, list) ==
  LET n == Len(list)
      idx == CursorIndex(rr_index, n)
  IN /\ rr_index' = CursorNext(idx, n)
     /\ backend_server' = [backend_server EXCEPT ![p] = ListAt(list, idx)]
     /\ pc' = [pc EXCEPT ![p] = AfterFind(p)]

\* find_backend_server, from its entry.  Threaded: `with health_lock:` is
\* entered, which waits until the lock is free.  Async: the whole
\* `async with state_lock:` block, which holds the check, the snapshot and
\* the cursor step; no task is suspended inside it, so state_lock is never
\* found held and the block runs as one step.
find_backend_server(p) ==
  /\ pc[p] = "find"
  /\ IF variant = "threaded"
       THEN /\ health_lock = NoHolder
            /\ health_lock' = p
            /\ pc' = [pc EXCEPT ![p] = "check"]
            /\ UNCHANGED <<backend_server, servers_list, rr_index>>
       ELSE /\ UNCHANGED health_lock
            /\ IF Len(healthy_servers) = 0
                 THEN /\ backend_server' = [backend_server EXCEPT ![p] = EmptyResult]
                      /\ pc' = [pc EXCEPT ![p] = AfterFind(p)]
                      /\ UNCHANGED <<servers_list, rr_index>>
                 ELSE /\ servers_list' = [servers_list EXCEPT ![p] = healthy_servers]
                      /\ CursorStep(p, healthy_servers)
  /\ UNCHANGED <<variant, healthy_servers, rr_lock, monitor_vars, calls, conn_vars>>

\* Threaded only: the body of `with health_lock:`, the emptiness check and
\* the snapshot; leaving the block releases the lock.
find_backend_server_check(p) ==
  /\ variant = "threaded"
  /\ pc[p] = "check"
  /\ health_lock' = NoHolder
  /\ IF Len(healthy_servers) = 0
       THEN /\ backend_server' = [backend_server EXCEPT ![p] = EmptyResult]
            /\ pc' = [pc EXCEPT ![p] = AfterFind(p)]
            /\ UNCHANGED servers_list
       ELSE /\ servers_list' = [servers_list EXCEPT ![p] = healthy_servers]
            /\ pc' = [pc EXCEPT ![p] = "rr_lock"]
            /\ UNCHANGED backend_server
  /\ UNCHANGED <<variant, healthy_servers, rr_index, rr_lock, monitor_vars, calls, conn_vars>>

\* Threaded only: rr_lock.acquire(), which waits until the lock is free.
find_backend_server_acquire(p) ==
  /\ variant = "threaded"
  /\ pc[p] = "rr_lock"
  /\ rr_lock = NoHolder
  /\ rr_lock' = p
  /\ pc' = [pc EXCEPT ![p] = "step"]
  /\ UNCHANGED <<variant, healthy_servers, rr_index, health_lock, backend_server,
                 servers_list, monitor_vars, calls, conn_vars>>

\* A cursor block that returns without rr_lock.release().
find_backend_server_rr_held(p) ==
  /\ variant = "threaded"
  /\ pc[p] = "step"
  /\ CursorStep(p, servers_list[p])
  /\ UNCHANGED <<variant, healthy_servers, health_lock, rr_lock, servers_list,
                 monitor_vars, calls, conn_vars>>

\* Threaded only: the block between rr_lock.acquire() and rr_lock.release().
find_backend_server_rr(p) ==
  /\ variant = "threaded"
  /\ pc[p] = "step"
  /\ CursorStep(p, servers_list[p])
  /\ rr_lock' = NoHolder
  /\ UNCHANGED <<variant, healthy_servers, health_lock, servers_list, monitor_vars, calls,
                 conn_vars>>

\* A direct call of find_backend_server().  Callers are interchangeable, so
\* they are numbered in the order they call.
Call(p) ==
  /\ p \in Callers
  /\ pc[p] = "idle"
  /\ \A q \in Callers : q < p => pc[q] # "idle"
  /\ pc' = [pc EXCEPT ![p] = "find"]
  /\ UNCHANGED <<variant, routing_vars, monitor_vars, backend_server, servers_list, calls,
                 conn_vars>>

\* One caller calling find_backend_server() again after the call before it
\* has returned.
CallAgain(p) ==
  /\ p \in Callers
  /\ pc[p] \in {"idle", "returned"}
  /\ calls < MaxCalls
  /\ calls' = calls + 1
  /\ pc' = [pc EXCEPT ![p] = "find"]
  /\ backend_server' = [backend_server EXCEPT ![p] = Unset]
  /\ UNCHANGED <<variant, routing_vars, monitor_vars, servers_list, conn_vars>>

\* ------------------------------------------------------------ handle_client
\* The synthetic responses of the proxy.
R503 == "HTTP/1.1 503 Service Unavailable\r\nConnection: close\r\nContent-Length: 0\r\n\r\n"
R502 == "HTTP/1.1 502 Bad Gateway\r\nConnection: close\r\nContent-Length: 0\r\n\r\n"

\* Requests a client may send, as sequences of lines and body bytes: "END" is
\* the blank line that ends the headers, "Content-Length: n" a header line.
Requests ==
  { <<>>,
    <<"GET / HTTP/1.1", "END">>,
    <<"POST / HTTP/1.1", "Content-Length: 1", "END", "a">>,
    <<"POST / HTTP/1.1", "Content-Length: x", "END", "a">> }

\* line.lower().startswith("content-length:")
IsContentLength(line) == line \in {"Content-Length: 1", "Content-Length: x"}

\* int(line.split(":", 1)[1].strip() or 0); a ValueError leaves content_length 0.
ParseContentLength(line) == IF line = "Content-Length: 1" THEN 1 ELSE 0

\* Position of the first "END" in a stream, 0 when there is none.
HeaderEnd(stream) ==
  IF \E i \in 1..Len(stream) : stream[i] = "END"
    THEN CHOOSE i \in 1..Len(stream) :
           stream[i] = "END" /\ \A j \in 1..(i - 1) : stream[j] # "END"
    ELSE 0

\* How much of a request the first read can deliver: the headers at least,
\* with the body or a part of it left for a later read; nothing only when
\* the client sends nothing.
FirstReads(req) ==
  IF req = <<>> THEN {0} ELSE {k \in 1..Len(req) : k >= HeaderEnd(req)}

\* read_full_request on everything the client sends: the bytes to forward
\* (headers, then body), or "error" when readuntil or readexactly hits the
\* end of the stream first.
read_full_request(stream) ==
  LET e == HeaderEnd(stream)
      headers == SubSeq(stream, 1, e)
      cls == {i \in 1..e : IsContentLength(stream[i])}
      content_length ==
        IF cls = {} THEN 0
        ELSE ParseContentLength(stream[CHOOSE i \in cls : \A j \in cls : i <= j])
  IN IF e = 0 \/ e + content_length > Len(stream)
       THEN <<"error">>
       ELSE <<"ok", headers \o SubSeq(stream, e + 1, e + content_length)>>

\* clientsocket.recv(4096): what the first read delivers.
recv_once(stream, k) == SubSeq(stream, 1, k)

\* The k-th chunk a backend sends.
Chunk(k) == "chunk-" \o ToString(k)

\* A connection is accepted and handle_client starts.  Threaded creates the
\* backend socket first; async starts with backend_writer = None.
Accept(h) ==
  /\ pc[h] = "idle"
  /\ \A g \in Clients : g < h => pc[g] # "idle"
  /\ IF variant = "threaded"
       THEN /\ backend_sock' = [backend_sock EXCEPT ![h] = "created"]
            /\ pc' = [pc EXCEPT ![h] = "recv"]
       ELSE /\ UNCHANGED backend_sock
            /\ pc' = [pc EXCEPT ![h] = "find"]
  /\ UNCHANGED <<variant, routing_vars, monitor_vars, backend_server, servers_list, calls,
                 client_alive, request, first_read, data_received, connect_result,
                 backend_in, backend_eof, backend_out, client_out, client_sock, raised>>

\* The client's end goes away (a reset) while the handler runs.
ClientDisconnect(h) ==
  /\ pc[h] \notin {"idle", "done"}
  /\ client_alive[h]
  /\ client_alive' = [client_alive EXCEPT ![h] = FALSE]
  /\ UNCHANGED <<variant, routing_vars, monitor_vars, select_vars,
                 request, first_read, data_received, connect_result, backend_in,
                 backend_eof, backend_out, client_out, client_sock, backend_sock, raised>>

\* Threaded: data_received = clientsocket.recv(4096).
Recv(h) ==
  /\ variant = "threaded"
  /\ pc[h] = "recv"
  /\ IF client_alive[h]
       THEN \E req \in Requests : \E k \in FirstReads(req) :
              /\ request' = [request EXCEPT ![h] = req]
              /\ first_read' = [first_read EXCEPT ![h] = k]
              /\ data_received' = [data_received EXCEPT ![h] = recv_once(req, k)]
              /\ pc' = [pc EXCEPT ![h] = "find"]
       ELSE /\ pc' = [pc EXCEPT ![h] = "except"]
            /\ UNCHANGED <<request, first_read, data_received>>
  /\ UNCHANGED <<variant, routing_vars, monitor_vars, backend_server, servers_list, calls,
                 client_alive, connect_result, backend_in, backend_eof, backend_out,
                 client_out, client_sock, backend_sock, raised>>

\* A handler that writes the 503 and, its `return` missing, goes on to
\* connect to None, which raises.
Respond503FallsThrough(h) ==
  /\ pc[h] = "selected"
  /\ backend_server[h] = None
  /\ client_out' = IF client_alive[h] THEN [client_out EXCEPT ![h] = Append(@, R503)]
                                       ELSE client_out
  /\ pc' = [pc EXCEPT ![h] = "except"]
  /\ UNCHANGED <<variant, routing_vars, monitor_vars, backend_server, servers_list, calls,
                 client_alive, request, first_read, data_received, connect_result,
                 backend_in, backend_eof, backend_out, client_sock, backend_sock, raised>>

\* `if backend_server is None:` write the 503 and return.
Respond503(h) ==
  /\ pc[h] = "selected"
  /\ backend_server[h] = None
  /\ IF client_alive[h]
       THEN /\ client_out' = [client_out EXCEPT ![h] = Append(@, R503)]
            /\ pc' = [pc EXCEPT ![h] = "finally"]
       ELSE /\ pc' = [pc EXCEPT ![h] = "except"]
            /\ UNCHANGED client_out
  /\ UNCHANGED <<variant, routing_vars, monitor_vars, backend_server, servers_list, calls,
                 client_alive, request, first_read, data_received, connect_result,
                 backend_in, backend_eof, backend_out, client_sock, backend_sock, raised>>

\* A connect that, when refused, takes the backend out of the healthy set.
ConnectEvicts(h) ==
  /\ pc[h] = "selected"
  /\ backend_server[h] # None
  /\ \E ok \in BOOLEAN :
       IF ok
         THEN /\ connect_result' = [connect_result EXCEPT ![h] = "connected"]
              /\ backend_sock' = [backend_sock EXCEPT ![h] = "connected"]
              /\ pc' = [pc EXCEPT ![h] =
                          IF variant = "threaded" THEN "forward" ELSE "read_request"]
              /\ UNCHANGED healthy_servers
         ELSE /\ connect_result' = [connect_result EXCEPT ![h] = "refused"]
              /\ pc' = [pc EXCEPT ![h] = "except"]
              /\ healthy_servers' = SelectSeq(healthy_servers, LAMBDA x : x # backend_server[h])
              /\ UNCHANGED backend_sock
  /\ UNCHANGED <<variant, rr_index, health_lock, rr_lock, monitor_vars, backend_server,
                 servers_list, calls, client_alive, request, first_read, data_received,
                 backend_in, backend_eof, backend_out, client_out, client_sock, raised>>

\* backend_socket.connect(backend_server) / asyncio.open_connection(...).
Connect(h) ==
  /\ pc[h] = "selected"
  /\ backend_server[h] # None
  /\ \E ok \in BOOLEAN :
       IF ok
         THEN /\ connect_result' = [connect_result EXCEPT ![h] = "connected"]
              /\ backend_sock' = [backend_sock EXCEPT ![h] = "connected"]
              /\ pc' = [pc EXCEPT ![h] =
                          IF variant = "threaded" THEN "forward" ELSE "read_request"]
         ELSE /\ connect_result' = [connect_result EXCEPT ![h] = "refused"]
              /\ pc' = [pc EXCEPT ![h] = "except"]
              /\ UNCHANGED backend_sock
  /\ UNCHANGED <<variant, routing_vars, monitor_vars, backend_server, servers_list, calls,
                 client_alive, request, first_read, data_received, backend_in,
                 backend_eof, backend_out, client_out, client_sock, raised>>

\* Async: headers, body = await read_full_request(client_reader).
ReadRequest(h) ==
  /\ variant = "async"
  /\ pc[h] = "read_request"
  /\ IF client_alive[h]
       THEN \E req \in Requests : \E k \in FirstReads(req) :
              /\ request' = [request EXCEPT ![h] = req]
              /\ first_read' = [first_read EXCEPT ![h] = k]
              /\ IF read_full_request(req)[1] = "ok"
                   THEN /\ data_received' =
                             [data_received EXCEPT ![h] = read_full_request(req)[2]]
                        /\ pc' = [pc EXCEPT ![h] = "forward"]
                   ELSE /\ pc' = [pc EXCEPT ![h] = "except"]
                        /\ UNCHANGED data_received
       ELSE /\ pc' = [pc EXCEPT ![h] = "except"]
            /\ UNCHANGED <<request, first_read, data_received>>
  /\ UNCHANGED <<variant, routing_vars, monitor_vars, backend_server, servers_list, calls,
                 client_alive, connect_result, backend_in, backend_eof, backend_out,
                 client_out, client_sock, backend_sock, raised>>

\* Threaded: backend_socket.sendall(data_received).  Async: write headers and
\* body, drain, write_eof.  The backend may have gone away by then.
Forward(h) ==
  /\ pc[h] = "forward"
  /\ \E ok \in BOOLEAN :
       IF ok
         THEN /\ backend_in' = [backend_in EXCEPT ![h] = data_received[h]]
              /\ backend_eof' = [backend_eof EXCEPT ![h] = (variant = "async")]
              /\ pc' = [pc EXCEPT ![h] = "stream"]
         ELSE /\ pc' = [pc EXCEPT ![h] = "except"]
              /\ UNCHANGED <<backend_in, backend_eof>>
  /\ UNCHANGED <<variant, routing_vars, monitor_vars, backend_server, servers_list, calls,
                 client_alive, request, first_read, data_received, connect_result,
                 backend_out, client_out, client_sock, backend_sock, raised>>

\* One turn of the response loop: read from the backend, then either write
\* the chunk to the client, leave the loop on an empty read, or fail.
Stream(h) ==
  /\ pc[h] = "stream"
  /\ \/ /\ Len(backend_out[h]) < MaxChunks
        /\ backend_out' = [backend_out EXCEPT ![h] = Append(@, Chunk(Len(@) + 1))]
        /\ IF client_alive[h]
             THEN /\ client_out' =
                       [client_out EXCEPT ![h] = Append(@, Chunk(Len(backend_out[h]) + 1))]
                  /\ UNCHANGED pc
             ELSE /\ pc' = [pc EXCEPT ![h] = "except"]
                  /\ UNCHANGED client_out
     \/ /\ pc' = [pc EXCEPT ![h] = "finally"]
        /\ UNCHANGED <<backend_out, client_out>>
     \/ /\ pc' = [pc EXCEPT ![h] = "except"]
        /\ UNCHANGED <<backend_out, client_out>>
  /\ UNCHANGED <<variant, routing_vars, monitor_vars, backend_server, servers_list, calls,
                 client_alive, request, first_read, data_received, connect_result,
                 backend_in, backend_eof, client_sock, backend_sock, raised>>

\* An except clause that, instead of giving up, selects another backend.
ExceptRetries(h) ==
  /\ pc[h] = "except"
  /\ pc' = [pc EXCEPT ![h] = "find"]
  /\ UNCHANGED <<variant, routing_vars, monitor_vars, backend_server, servers_list, calls,
                 client_alive, request, first_read, data_received, connect_result,
                 backend_in, backend_eof, backend_out, client_out, client_sock,
                 backend_sock, raised>>

\* The `except Exception` clause.  Threaded logs.  Async logs and tries to
\* write the 502; a failure of that write is logged and swallowed.
Except(h) ==
  /\ pc[h] = "except"
  /\ client_out' =
       IF variant = "async" /\ client_alive[h]
         THEN [client_out EXCEPT ![h] = Append(@, R502)]
         ELSE client_out
  /\ pc' = [pc EXCEPT ![h] = "finally"]
  /\ UNCHANGED <<variant, routing_vars, monitor_vars, backend_server, servers_list, calls,
                 client_alive, request, first_read, data_received, connect_result,
                 backend_in, backend_eof, backend_out, client_sock, backend_sock, raised>>

\* Which close of the finally clause can raise.  The client's: in threaded,
\* clientsocket.close() on an OS error; in async, wait_closed() once the
\* client connection was lost.  The backend's: once it was connected.
CloseFailures(h) ==
  {"none"}
    \cup (IF variant = "threaded" \/ ~client_alive[h] THEN {"client"} ELSE {})
    \cup (IF backend_sock[h] = "connected" THEN {"backend"} ELSE {})

\* The finally clause: close the client, then the backend socket if there is
\* one.  An exception from the client's close leaves the clause at once.
Finally(h) ==
  /\ pc[h] = "finally"
  /\ \E fail \in CloseFailures(h) :
       /\ client_sock' = [client_sock EXCEPT ![h] = "closed"]
       /\ backend_sock' =
            IF fail = "client" \/ backend_sock[h] = "none"
              THEN backend_sock
              ELSE [backend_sock EXCEPT ![h] = "closed"]
       /\ raised' = [raised EXCEPT ![h] = (fail # "none")]
  /\ pc' = [pc EXCEPT ![h] = "done"]
  /\ UNCHANGED <<variant, routing_vars, monitor_vars, backend_server, servers_list, calls,
                 client_alive, request, first_read, data_received, connect_result,
                 backend_in, backend_eof, backend_out, client_out>>

\* ----------------------------------------------------------------- monitor
\* call_health_route(server) for the current server of the pass.
Probe(r) ==
  /\ mon_pc = "probe"
  /\ r # "raise"
  /\ response' = r
  /\ is_healthy' = call_health_route(r)
  /\ mon_pc' = "update"
  /\ UNCHANGED <<variant, routing_vars, mon_i, select_vars, conn_vars>>

\* The monitor's position after the loop body has finished for server i: the
\* next server of the for loop or, after the last one, the sleep, from which
\* the next pass starts at the first server.
NextServer(i) ==
  IF i < Len(backend_servers) THEN <<"probe", i + 1>> ELSE <<"sleep", 1>>

\* Threaded: `with health_lock:` of updateHealthyServers is entered, which
\* waits until the lock is free.
UpdateAcquire ==
  /\ variant = "threaded"
  /\ mon_pc = "update"
  /\ health_lock = NoHolder
  /\ health_lock' = MonitorThread
  /\ mon_pc' = "locked"
  /\ UNCHANGED <<variant, healthy_servers, rr_index, rr_lock, mon_i, response, is_healthy,
                 select_vars, conn_vars>>

\* The locked block of updateHealthyServers for the current server; leaving
\* it releases the lock.  Async enters and leaves `async with state_lock:`
\* in one step: no task is suspended while holding state_lock.  The locals
\* response and is_healthy are not read again before the next probe
\* overwrites them, and are cleared here.
Update ==
  /\ mon_pc = (IF variant = "threaded" THEN "locked" ELSE "update")
  /\ healthy_servers' \in ApplyProbe(healthy_servers, backend_servers[mon_i], is_healthy)
  /\ health_lock' = NoHolder
  /\ response' = "none"
  /\ is_healthy' = FALSE
  /\ mon_pc' = NextServer(mon_i)[1]
  /\ mon_i' = NextServer(mon_i)[2]
  /\ UNCHANGED <<variant, rr_index, rr_lock, select_vars, conn_vars>>

\* The `except Exception` clause of the loop body: threaded logs and goes on
\* to the next server; async logs and breaks out of the for loop.
ProbeRaises ==
  /\ mon_pc = "probe"
  /\ IF variant = "threaded"
       THEN /\ mon_pc' = NextServer(mon_i)[1]
            /\ mon_i' = NextServer(mon_i)[2]
       ELSE /\ mon_pc' = "sleep"
            /\ mon_i' = 1
  /\ UNCHANGED <<variant, routing_vars, response, is_healthy, select_vars, conn_vars>>

\* time.sleep(health_check_period), then the next pass of `while (True)`.
Sleep ==
  /\ mon_pc = "sleep"
  /\ mon_pc' = "probe"
  /\ mon_i' = 1
  /\ UNCHANGED <<variant, routing_vars, response, is_healthy, select_vars, conn_vars>>

updateHealthyServers ==
  \/ \E r \in ProbeResponses : Probe(r)
  \/ UpdateAcquire
  \/ Update
  \/ ProbeRaises
  \/ Sleep

\* --------------------------------------------------------------- the start
\* A healthy set that starts empty and is filled by the first probes.
InitialHealthyEmpty == {<<>>}

\* healthy_servers = set(backend_servers.copy()): every configured backend,
\* in whatever order the set iterates.
InitialHealthy == Orders(Backends)

\* Module level state after import and the start of the monitor.
Init ==
  /\ variant \in Variants
  /\ healthy_servers \in InitialHealthy
  /\ rr_index = 0
  /\ health_lock = NoHolder
  /\ rr_lock = NoHolder
  /\ mon_pc = "probe"
  /\ mon_i = 1
  /\ response = "none"
  /\ is_healthy = FALSE
  /\ pass_result = [b \in Backends |-> "none"]
  /\ ever_removed = {}
  /\ pc = [p \in Procs |-> "idle"]
  /\ backend_server = [p \in Procs |-> Unset]
  /\ servers_list = [p \in Procs |-> <<>>]
  /\ calls = 0
  /\ client_alive = [h \in Clients |-> TRUE]
  /\ request = [h \in Clients |-> <<>>]
  /\ first_read = [h \in Clients |-> 0]
  /\ data_received = [h \in Clients |-> <<>>]
  /\ connect_result = [h \in Clients |-> "none"]
  /\ backend_in = [h \in Clients |-> <<>>]
  /\ backend_eof = [h \in Clients |-> FALSE]
  /\ backend_out = [h \in Clients |-> <<>>]
  /\ client_out = [h \in Clients |-> <<>>]
  /\ client_sock = [h \in Clients |-> "open"]
  /\ backend_sock = [h \in Clients |-> "none"]
  /\ raised = [h \in Clients |-> FALSE]
  /\ history = <<>>
  /\ n_select = [h \in Clients |-> 0]
  /\ n_connect = [h \in Clients |-> 0]
  /\ write_failed = [h \in Clients |-> FALSE]
  /\ ending = [h \in Clients |-> "none"]
  /\ first_run = <<>>
  /\ ever_probed = {}
  /\ ever_passed = {}

\* --------------------------------------------------------------- observers
\* Records, per backend, what its probe met in the pass that is running or
\* has just ended, and which backends were ever removed.
ObserveMonitor ==
  /\ pass_result' =
       IF mon_pc = "probe" /\ mon_pc' = "update"
         THEN [pass_result EXCEPT ![backend_servers[mon_i]] = response']
         ELSE IF mon_pc = "sleep" /\ mon_pc' = "probe"
           THEN [b \in Backends |-> "none"]
           ELSE pass_result
  /\ ever_removed' = ever_removed \cup (HealthySet \ Range(healthy_servers'))

\* Records the backends find_backend_server() returns, in the order of the
\* cursor steps, from snapshots of the healthy set as it is now; starts
\* afresh when the healthy set changes.
ObserveSelect ==
  history' =
    IF healthy_servers' # healthy_servers
      THEN <<>>
      ELSE IF \E p \in Procs : /\ backend_server'[p] # backend_server[p]
                                /\ backend_server'[p] \in Backends
                                /\ servers_list'[p] = healthy_servers
        THEN Append(history,
               backend_server'[CHOOSE p \in Procs : backend_server'[p] # backend_server[p]])
        ELSE history

\* Records, per connection, what its handler did: the selections and
\* connects made for it (counted up to 2), whether a write of the 503 or the
\* 502 met a client that had gone, and how the backend's response ended
\* ("eof": an empty read; "drop": the forward or a read failed).
ObserveSession ==
  /\ n_select' =
       [h \in Clients |->
          IF pc[h] # "find" /\ pc'[h] = "find" /\ n_select[h] < 2
            THEN n_select[h] + 1 ELSE n_select[h]]
  /\ n_connect' =
       [h \in Clients |->
          IF /\ pc[h] = "selected" /\ backend_server[h] # None
             /\ pc'[h] # "selected" /\ n_connect[h] < 2
            THEN n_connect[h] + 1 ELSE n_connect[h]]
  /\ write_failed' =
       [h \in Clients |->
          \/ write_failed[h]
          \/ /\ pc[h] = "selected" /\ backend_server[h] = None
             /\ pc'[h] # "selected" /\ ~client_alive[h]
          \/ /\ pc[h] = "except" /\ pc'[h] # "except"
             /\ variant = "async" /\ ~client_alive[h]]
  /\ ending' =
       [h \in Clients |->
          IF pc[h] \in {"forward", "stream"} /\ pc'[h] = "finally"
            THEN "eof"
            ELSE IF /\ pc[h] \in {"forward", "stream"} /\ pc'[h] = "except"
                    /\ backend_out'[h] = backend_out[h]
              THEN "drop"
              ELSE ending[h]]

\* An action of the program together with what the observers record.
Monitoring(A) ==
  A /\ ObserveMonitor /\ UNCHANGED <<history, session_vars, first_run, startup_vars>>
Selecting(A) ==
  A /\ ObserveSelect
    /\ UNCHANGED <<pass_result, ever_removed, session_vars, first_run, startup_vars>>
Handling(A) ==
  A /\ ObserveSelect /\ ObserveSession
    /\ UNCHANGED <<pass_result, ever_removed, first_run, startup_vars>>

\* The monitor alone.
NextMonitor ==
  \/ Monitoring(\E r \in ProbeResponses : Probe(r))
  \/ Monitoring(UpdateAcquire)
  \/ Monitoring(Update)
  \/ Monitoring(ProbeRaises)
  \/ Monitoring(Sleep)

SpecMonitor == Init /\ [][NextMonitor]_vars

\* The monitor beside one caller that calls find_backend_server() again and
\* again, each call after the one before it has returned.
NextSeq ==
  \/ Selecting(\E r \in ProbeResponses : Probe(r))
  \/ Selecting(UpdateAcquire)
  \/ Selecting(Update)
  \/ Selecting(ProbeRaises)
  \/ Selecting(Sleep)
  \/ Selecting(CallAgain(1))
  \/ Selecting(find_backend_server(1))
  \/ Selecting(find_backend_server_check(1))
  \/ Selecting(find_backend_server_acquire(1))
  \/ Selecting(find_backend_server_rr(1))

SpecSeq == Init /\ [][NextSeq]_vars

\* No caller has called yet.
NoCallYet == \A p \in Callers : pc[p] = "idle"

\* Concurrent callers that all arrive in one sleep of the monitor, after
\* any number of passes, and whose calls run while it sleeps.
NextConc ==
  \/ Selecting(NoCallYet /\ \E r \in ProbeResponses : Probe(r))
  \/ Selecting(NoCallYet /\ UpdateAcquire)
  \/ Selecting(NoCallYet /\ Update)
  \/ Selecting(NoCallYet /\ ProbeRaises)
  \/ Selecting(NoCallYet /\ Sleep)
  \/ Selecting(mon_pc = "sleep" /\ \E p \in Callers : Call(p))
  \/ Selecting(\E p \in Callers : find_backend_server(p))
  \/ Selecting(\E p \in Callers : find_backend_server_check(p))
  \/ Selecting(\E p \in Callers : find_backend_server_acquire(p))
  \/ Selecting(\E p \in Callers : find_backend_server_rr(p))

SpecConc == Init /\ [][NextConc]_vars

Racers == 1..NumRacers

\* A step of the program with nothing recorded.
Racing(A) == A /\ UNCHANGED observed_vars

\* Callers whose find_backend_server() calls run concurrently with each
\* other and with the monitor, under every interleaving.
NextRace ==
  \/ Racing(\E r \in ProbeResponses : Probe(r))
  \/ Racing(UpdateAcquire)
  \/ Racing(Update)
  \/ Racing(ProbeRaises)
  \/ Racing(Sleep)
  \/ Racing(\E p \in Racers : Call(p))
  \/ Racing(\E p \in Racers : find_backend_server(p))
  \/ Racing(\E p \in Racers : find_backend_server_check(p))
  \/ Racing(\E p \in Racers : find_backend_server_acquire(p))
  \/ Racing(\E p \in Racers : find_backend_server_rr(p))

SpecRace == Init /\ [][NextRace]_vars

\* No connection has been accepted yet.
NoClientYet == \A h \in Clients : pc[h] = "idle"

\* The connections before h have all been handled to the end.
Turn(h) == \A g \in Clients : g < h => pc[g] = "done"

\* Client connections that arrive in one sleep of the monitor, after any
\* number of passes, and are handled one after the other while it sleeps.
NextProxy ==
  \/ Handling(NoClientYet /\ \E r \in ProbeResponses : Probe(r))
  \/ Handling(NoClientYet /\ UpdateAcquire)
  \/ Handling(NoClientYet /\ Update)
  \/ Handling(NoClientYet /\ ProbeRaises)
  \/ Handling(NoClientYet /\ Sleep)
  \/ Handling(mon_pc = "sleep" /\ \E h \in Clients : Turn(h) /\ Accept(h))
  \/ Handling(\E h \in Clients : Recv(h))
  \/ Handling(\E h \in Clients : find_backend_server(h))
  \/ Handling(\E h \in Clients : find_backend_server_check(h))
  \/ Handling(\E h \in Clients : find_backend_server_acquire(h))
  \/ Handling(\E h \in Clients : find_backend_server_rr(h))
  \/ Handling(\E h \in Clients : Respond503(h))
  \/ Handling(\E h \in Clients : Connect(h))
  \/ Handling(\E h \in Clients : ReadRequest(h))
  \/ Handling(\E h \in Clients : Forward(h))
  \/ Handling(\E h \in Clients : Stream(h))
  \/ Handling(\E h \in Clients : Except(h))
  \/ Handling(\E h \in Clients : Finally(h))
  \/ Handling(\E h \in Clients : ClientDisconnect(h))

SpecProxy == Init /\ [][NextProxy]_vars

\* The connection that is handled once by each variant.
PairClient == NumCallers + 1

\* The other program.
OtherVariant == IF variant = "threaded" THEN "async" ELSE "threaded"

\* A request of the shape the proxy is meant for has been read, if any was.
WellFormedRead(h) ==
  request'[h] # request[h] =>
    request'[h] \in { <<"GET / HTTP/1.1", "END">>,
                      <<"POST / HTTP/1.1", "Content-Length: 1", "END", "a">> }

\* The connection has been handled by one variant; the other variant is
\* started with the same healthy set (in whatever order its own set object
\* iterates) and the same cursor and meets the same connection.  What the
\* first variant did is kept in first_run.
Replay(h) ==
  /\ pc[h] = "done"
  /\ first_run = <<>>
  /\ first_run' = << [healthy_servers |-> healthy_servers,
                      backend_server |-> backend_server[h],
                      client_out |-> client_out[h],
                      connect_result |-> connect_result[h],
                      backend_out |-> backend_out[h],
                      ending |-> ending[h]] >>
  /\ variant' = OtherVariant
  /\ healthy_servers' \in Orders(HealthySet)
  /\ rr_index' = 0
  /\ pc' = [pc EXCEPT ![h] = "idle"]
  /\ backend_server' = [backend_server EXCEPT ![h] = Unset]
  /\ servers_list' = [servers_list EXCEPT ![h] = <<>>]
  /\ client_alive' = [client_alive EXCEPT ![h] = TRUE]
  /\ request' = [request EXCEPT ![h] = <<>>]
  /\ first_read' = [first_read EXCEPT ![h] = 0]
  /\ data_received' = [data_received EXCEPT ![h] = <<>>]
  /\ connect_result' = [connect_result EXCEPT ![h] = "none"]
  /\ backend_in' = [backend_in EXCEPT ![h] = <<>>]
  /\ backend_eof' = [backend_eof EXCEPT ![h] = FALSE]
  /\ backend_out' = [backend_out EXCEPT ![h] = <<>>]
  /\ client_out' = [client_out EXCEPT ![h] = <<>>]
  /\ client_sock' = [client_sock EXCEPT ![h] = "open"]
  /\ backend_sock' = [backend_sock EXCEPT ![h] = "none"]
  /\ raised' = [raised EXCEPT ![h] = FALSE]
  /\ n_select' = [n_select EXCEPT ![h] = 0]
  /\ n_connect' = [n_connect EXCEPT ![h] = 0]
  /\ write_failed' = [write_failed EXCEPT ![h] = FALSE]
  /\ ending' = [ending EXCEPT ![h] = "none"]
  /\ UNCHANGED <<health_lock, rr_lock, monitor_vars, calls, pass_result, ever_removed, history,
                 startup_vars>>

Pairing(A) ==
  A /\ ObserveSession
    /\ UNCHANGED <<pass_result, ever_removed, history, first_run, startup_vars>>

\* One client connection, with a well-formed request and a client that
\* stays, handled by one variant and then, from the same healthy set and
\* cursor, by the other.  The rotation cursor is 0 at the start of each.
NextPair ==
  \/ Pairing(NoClientYet /\ first_run = <<>> /\ \E r \in ProbeResponses : Probe(r))
  \/ Pairing(NoClientYet /\ first_run = <<>> /\ UpdateAcquire)
  \/ Pairing(NoClientYet /\ first_run = <<>> /\ Update)
  \/ Pairing(NoClientYet /\ first_run = <<>> /\ ProbeRaises)
  \/ Pairing(NoClientYet /\ first_run = <<>> /\ Sleep)
  \/ Pairing(mon_pc = "sleep" /\ Accept(PairClient))
  \/ Pairing(Recv(PairClient) /\ WellFormedRead(PairClient))
  \/ Pairing(find_backend_server(PairClient))
  \/ Pairing(find_backend_server_check(PairClient))
  \/ Pairing(find_backend_server_acquire(PairClient))
  \/ Pairing(find_backend_server_rr(PairClient))
  \/ Pairing(Respond503(PairClient))
  \/ Pairing(Connect(PairClient))
  \/ Pairing(ReadRequest(PairClient) /\ WellFormedRead(PairClient))
  \/ Pairing(Forward(PairClient))
  \/ Pairing(Stream(PairClient))
  \/ Pairing(Except(PairClient))
  \/ Pairing(Finally(PairClient))
  \/ Replay(PairClient)

SpecPair == Init /\ [][NextPair]_vars

\* Records the backends whose probe has completed (returned a result or
\* raised) and those whose probe has succeeded, since the process started.
ObserveProbes ==
  /\ ever_probed' =
       IF mon_pc = "probe" /\ (mon_pc' # "probe" \/ mon_i' # mon_i)
         THEN ever_probed \cup {backend_servers[mon_i]}
         ELSE ever_probed
  /\ ever_passed' =
       IF mon_pc = "probe" /\ mon_pc' = "update" /\ is_healthy'
         THEN ever_passed \cup {backend_servers[mon_i]}
         ELSE ever_passed

Starting(A) ==
  A /\ ObserveProbes
    /\ UNCHANGED <<pass_result, ever_removed, history, session_vars, first_run>>

\* The start of the process: the monitor's first pass, with client
\* connections accepted and handled, one after the other, at any moment of
\* it or after it.
NextStartup ==
  \/ Starting(\E r \in ProbeResponses : Probe(r))
  \/ Starting(UpdateAcquire)
  \/ Starting(Update)
  \/ Starting(ProbeRaises)
  \/ Starting(\E h \in Clients : Turn(h) /\ Accept(h))
  \/ Starting(\E h \in Clients : Recv(h))
  \/ Starting(\E h \in Clients : find_backend_server(h))
  \/ Starting(\E h \in Clients : find_backend_server_check(h))
  \/ Starting(\E h \in Clients : find_backend_server_acquire(h))
  \/ Starting(\E h \in Clients : find_backend_server_rr(h))
  \/ Starting(\E h \in Clients : Respond503(h))
  \/ Starting(\E h \in Clients : Connect(h))
  \/ Starting(\E h \in Clients : ReadRequest(h))
  \/ Starting(\E h \in Clients : Forward(h))
  \/ Starting(\E h \in Clients : Stream(h))
  \/ Starting(\E h \in Clients : Except(h))
  \/ Starting(\E h \in Clients : Finally(h))
  \/ Starting(\E h \in Clients : ClientDisconnect(h))

SpecStartup == Init /\ [][NextStartup]_vars

\* ================================================================== claims

\* How often backend b occurs in a sequence of returned backends.
Count(seq, b) == Cardinality({i \in 1..Len(seq) : seq[i] = b})

\* C1: with N >= 1 healthy backends and no health change in between, the
\* backends returned by successive find_backend_server() calls form a
\* rotation with period N: every call returns a healthy backend, call i and
\* call i+N return the same backend, and every window of N consecutive calls
\* returns all N healthy backends (so each exactly once).
C1_RotationPeriodN ==
  LET N == Len(healthy_servers)
      M == Len(history)
  IN /\ \A i \in 1..M : history[i] \in HealthySet
     /\ \A i \in 1..M : i + N <= M => history[i + N] = history[i]
     /\ \A i \in 1..M :
          i + N - 1 <= M => {history[k] : k \in i..(i + N - 1)} = HealthySet

\* Three healthy backends and four calls since the last health change: the
\* fourth call has returned what the first returned.
C1_Witness ==
  /\ Len(healthy_servers) = 3
  /\ Len(history) = 4
  /\ pc[1] = "returned"

\* C2: a find_backend_server() call that finds the healthy set empty returns
\* None; a call that returns a backend took a non-empty snapshot holding
\* that backend; and the healthy set leaves the empty state only by the
\* monitor adding the backend it has just probed successfully.
C2_NoneWhileEmpty ==
  [][/\ \A p \in Procs :
          (pc[p] = CheckAt /\ pc'[p] # CheckAt /\ healthy_servers = <<>>)
            => (backend_server'[p] = None /\ pc'[p] = AfterFind(p))
     /\ \A p \in Procs :
          (backend_server'[p] # backend_server[p] /\ backend_server'[p] \notin {None, Unset})
            => (servers_list'[p] # <<>> /\ backend_server'[p] \in Range(servers_list'[p]))
     /\ (healthy_servers = <<>> /\ healthy_servers' # <<>>)
          => (mon_pc \in {"update", "locked"} /\ is_healthy
              /\ healthy_servers' = <<backend_servers[mon_i]>>)]_vars

\* The healthy set is empty and a call has returned None.
C2_Witness ==
  /\ healthy_servers = <<>>
  /\ pc[1] = "returned"
  /\ backend_server[1] = None
  /\ calls >= 2

\* C7: K concurrent find_backend_server() calls over an unchanged healthy
\* set H each return a member of H, the numbers of calls returned each
\* member differ by at most one, K <= N calls return pairwise distinct
\* backends, and with two healthy backends an even number of calls is split
\* evenly between them.
C7_ConcurrentFair ==
  LET N == Len(healthy_servers)
      M == Len(history)
      Returned == {p \in Callers : pc[p] = "returned"}
  IN /\ \A p \in Returned :
          backend_server[p] \in (IF N = 0 THEN {None} ELSE HealthySet)
     /\ N > 0 => Cardinality(Returned) = M
     /\ \A b \in Backends : Count(history, b) = Cardinality({p \in Returned : backend_server[p] = b})
     /\ \A a, b \in HealthySet : Count(history, a) - Count(history, b) <= 1
     /\ M <= N => \A i, j \in 1..M : i # j => history[i] # history[j]
     /\ (N = 2 /\ M % 2 = 0) => \A b \in HealthySet : 2 * Count(history, b) = M

\* Threaded, one of three backends unhealthy: some calls have returned while
\* two others both hold a snapshot and wait for the cursor lock.
C7_Witness ==
  /\ variant = "threaded"
  /\ Len(healthy_servers) = 2
  /\ Len(history) >= 2
  /\ \E p, q \in Callers : p # q /\ pc[p] = "rr_lock" /\ pc[q] = "rr_lock"

\* C8: when a monitor pass has ended, a backend whose probe in that pass met
\* a non-200 response, a timeout or a refused connection is not in the
\* healthy set, and a backend whose probe met 200 is in it, whatever the
\* set held before the pass.
C8_PassDecidesMembership ==
  mon_pc = "sleep" =>
    \A b \in Backends :
      /\ pass_result[b] \in {"non-200", "timeout", "refused"} => b \notin HealthySet
      /\ pass_result[b] = "200 OK" => b \in HealthySet

\* A pass has ended in which a backend removed earlier was probed with
\* success and is healthy again, and another one failed and is out.
C8_Witness ==
  /\ mon_pc = "sleep"
  /\ \E b \in ever_removed : pass_result[b] = "200 OK" /\ b \in HealthySet
  /\ \E b \in Backends : pass_result[b] = "timeout" /\ b \notin HealthySet

\* C9: the healthy set is a subset of the configured backends, and every
\* backend find_backend_server() has returned is a configured backend.
C9_OnlyConfigured ==
  /\ HealthySet \subseteq Backends
  /\ \A p \in Procs : backend_server[p] \in Backends \cup {None, Unset}
  /\ \A p \in Procs : Range(servers_list[p]) \subseteq Backends
  /\ \A i \in 1..Len(history) : history[i] \in Backends

\* A call has returned a backend that is configured and no longer healthy.
C9_Witness ==
  /\ pc[1] = "returned"
  /\ backend_server[1] \in Backends \ HealthySet

\* C3: a connection handled while the healthy set is empty gets no other
\* bytes than the literal 503 response (all of it when the client is still
\* there), no backend connect is attempted for it, and when the handler has
\* ended the client connection is closed.
C3_Only503WhenEmpty ==
  \A h \in Clients :
    (healthy_servers = <<>> /\ pc[h] # "idle") =>
      /\ connect_result[h] = "none"
      /\ backend_sock[h] # "connected"
      /\ backend_in[h] = <<>>
      /\ client_out[h] \in
           { <<>>,
             <<"HTTP/1.1 503 Service Unavailable\r\nConnection: close\r\nContent-Length: 0\r\n\r\n">> }
      /\ pc[h] = "done" =>
           /\ client_sock[h] = "closed"
           /\ client_alive[h] => client_out[h] # <<>>

\* A handler has ended with the healthy set empty: the client holds the 503
\* and its connection is closed.
C3_Witness ==
  \E h \in Clients :
    /\ healthy_servers = <<>>
    /\ pc[h] = "done"
    /\ backend_server[h] = None
    /\ client_out[h] = <<R503>>
    /\ client_sock[h] = "closed"

\* C4: when the chosen backend refuses the connect, the client (still
\* connected) has received exactly the literal 502 response by the time the
\* handler has ended, in the threaded and in the async handle_client.
C4_Refused502 ==
  \A h \in Clients :
    (pc[h] = "done" /\ connect_result[h] = "refused" /\ client_alive[h]) =>
      client_out[h] =
        <<"HTTP/1.1 502 Bad Gateway\r\nConnection: close\r\nContent-Length: 0\r\n\r\n">>

\* C5: once a response chunk has been delivered to the client, no 502
\* response follows it on that connection.
C5_No502AfterChunk ==
  \A h \in Clients :
    \A i, j \in 1..Len(client_out[h]) :
      (i < j /\ client_out[h][i] \notin {R502, R503}) => client_out[h][j] # R502

\* C6: when handle_client has ended, on whatever path, the client socket is
\* closed and the backend socket, if there is one, is closed.
C6_BothSocketsClosed ==
  \A h \in Clients :
    pc[h] = "done" =>
      /\ client_sock[h] = "closed"
      /\ backend_sock[h] \in {"none", "closed"}

\* Requests made of headers, the blank line and a body of the declared
\* length (no body when no length is declared).
WellFormedRequests ==
  { <<"GET / HTTP/1.1", "END">>,
    <<"POST / HTTP/1.1", "Content-Length: 1", "END", "a">> }

\* The response chunks among the bytes delivered to a client.
Delivered(h) == SelectSeq(client_out[h], LAMBDA x : x \notin {R502, R503})

\* C10: once the request has been forwarded, the backend holds exactly the
\* bytes of the client's well-formed request, also when the body came in a
\* later read than the headers; and the chunks delivered to the client are
\* the chunks read from the backend, unchanged and in order.
C10_RoundTrip ==
  \A h \in Clients :
    /\ (pc[h] = "stream" /\ request[h] \in WellFormedRequests) => backend_in[h] = request[h]
    /\ Delivered(h) = SubSeq(backend_out[h], 1, Len(Delivered(h)))
    /\ client_alive[h] => Delivered(h) = backend_out[h]

\* C11: the threaded and the async handle_client are interchangeable: from
\* the same healthy set (in the same iteration order) and cursor, and with
\* the same backend behaviour for the connection (no healthy backend,
\* connect refused, the same chunks and then end of stream, the same chunks
\* and then a drop), both select the same backend and deliver the same
\* bytes to the client.
C11_VariantsInterchangeable ==
  LET h == PairClient IN
    ( /\ first_run # <<>>
      /\ pc[h] = "done"
      /\ healthy_servers = first_run[1].healthy_servers
      /\ connect_result[h] = first_run[1].connect_result
      /\ backend_out[h] = first_run[1].backend_out
      /\ ending[h] = first_run[1].ending )
    => /\ backend_server[h] = first_run[1].backend_server
       /\ client_out[h] = first_run[1].client_out

\* C12: for one client connection find_backend_server() is called at most
\* once and at most one backend connect is attempted, and once the handler
\* has ended nothing more is selected, connected, read or written for that
\* connection.
C12_OneSelectionThenClosed ==
  [][\A h \in Clients :
       /\ n_select'[h] <= 1
       /\ n_connect'[h] <= 1
       /\ pc[h] = "done" =>
            /\ pc'[h] = "done"
            /\ backend_server'[h] = backend_server[h]
            /\ connect_result'[h] = connect_result[h]
            /\ data_received'[h] = data_received[h]
            /\ backend_in'[h] = backend_in[h]
            /\ backend_out'[h] = backend_out[h]
            /\ client_out'[h] = client_out[h]
            /\ backend_sock'[h] = backend_sock[h]
            /\ client_sock'[h] = client_sock[h]]_vars

\* A handler has ended after one selection and one connect, which the
\* backend refused.
C12_Witness ==
  \E h \in Clients :
    /\ pc[h] = "done"
    /\ n_select[h] = 1
    /\ n_connect[h] = 1
    /\ connect_result[h] = "refused"

\* C13: find_backend_server() is one critical section with respect to the
\* monitor: the backend a call returns is a member of the healthy set at
\* the instant the call advances the cursor.
C13_ReturnedIsHealthy ==
  [][\A p \in Procs :
       (backend_server'[p] # backend_server[p] /\ backend_server'[p] \in Backends)
         => backend_server'[p] \in HealthySet]_vars

\* C14: the index a call uses lies within the snapshot that call took: a
\* call that has passed the emptiness check holds a non-empty snapshot, the
\* cursor reduced to its length is one of its positions whatever the cursor
\* and the healthy set have become, no call meets an IndexError, and a
\* returned backend is an element of the call's own snapshot.
C14_IndexInSnapshot ==
  \A p \in Procs :
    /\ pc[p] \in {"rr_lock", "step"} =>
         /\ servers_list[p] # <<>>
         /\ CursorIndex(rr_index, Len(servers_list[p])) \in 0..(Len(servers_list[p]) - 1)
    /\ backend_server[p] # IndexError
    /\ backend_server[p] \in Backends => backend_server[p] \in Range(servers_list[p])

\* A call is about to index its snapshot while the cursor left by an earlier
\* selection is beyond the snapshot's end and the healthy set has shrunk
\* since the snapshot was taken.
C14_Witness ==
  \E q \in Racers :
    /\ pc[q] = "step"
    /\ rr_index >= Len(servers_list[q])
    /\ Len(healthy_servers) < Len(servers_list[q])

\* C15: the handler reads the client's request before it selects a backend:
\* while a connection's request is still to be read, no selection has been
\* made for it (the cursor has not been advanced on its behalf) and no
\* backend connection has been opened for it.
C15_ReadBeforeSelect ==
  \A h \in Clients :
    pc[h] \in {"recv", "read_request"} =>
      /\ n_select[h] = 0
      /\ backend_server[h] = Unset
      /\ connect_result[h] = "none"
      /\ backend_sock[h] # "connected"

\* C16: when the handler reads the backend's response, the request bytes it
\* captured have been written to the backend and the end of the request has
\* been signalled to it (the handler's write side is half-closed).
C16_EofBeforeResponse ==
  \A h \in Clients :
    pc[h] = "stream" =>
      /\ backend_in[h] = data_received[h]
      /\ backend_eof[h]

\* C17: each monitor pass probes every configured backend once, in
\* registration order, whatever the earlier probes of the pass met: the
\* monitor moves from one backend to the next one only, goes to sleep only
\* after the last backend, starts each pass at the first, and never stops.
C17_PassProbesAll ==
  [][/\ (mon_pc # "sleep" /\ mon_pc' = "sleep") => mon_i = Len(backend_servers)
     /\ (mon_pc # "sleep" /\ mon_i' # mon_i) =>
          (mon_i' = mon_i + 1 \/ (mon_i = Len(backend_servers) /\ mon_pc' = "sleep"))
     /\ mon_pc = "sleep" => (mon_pc' = "probe" /\ mon_i' = 1)
     /\ mon_pc' \in {"probe", "update", "locked", "sleep"}]_vars

\* C18: no handler and no monitor step holds a state lock while it does
\* socket I/O: the monitor holds health_lock only inside its update block,
\* a process holds health_lock only for the check and snapshot and rr_lock
\* only for the cursor step, and whoever probes, reads, writes, connects or
\* closes holds neither.
C18_NoLockDuringIO ==
  /\ health_lock = MonitorThread => mon_pc = "locked"
  /\ rr_lock # MonitorThread
  /\ mon_pc \in {"probe", "sleep"} => health_lock # MonitorThread
  /\ \A p \in Procs :
       /\ health_lock = p => pc[p] = "check"
       /\ rr_lock = p => pc[p] = "step"
  /\ \A h \in Clients :
       pc[h] \in {"recv", "selected", "read_request", "forward", "stream", "except",
                  "finally"}
         => (health_lock # h /\ rr_lock # h)

\* A handler has taken its snapshot and holds rr_lock for the cursor step,
\* its client's request read and no backend connection opened yet.
C18_Witness ==
  \E h \in Clients :
    /\ pc[h] = "step"
    /\ rr_lock = h
    /\ request[h] # <<>>
    /\ backend_sock[h] = "created"

\* C19: when the write of the 503 or of the 502 to the client has failed,
\* handle_client still runs its cleanup and ends without raising: both
\* sockets are closed and no exception leaves the handler.
C19_ErrorWriteFailureSwallowed ==
  \A h \in Clients :
    (pc[h] = "done" /\ write_failed[h]) =>
      /\ ~raised[h]
      /\ client_sock[h] = "closed"
      /\ backend_sock[h] \in {"none", "closed"}

\* C20: only the health monitor changes the healthy set, and it leaves the
\* cursor alone; only a selection changes the rotation cursor, and it
\* leaves the healthy set alone; no other step of handle_client (a refused
\* connect, a failure while forwarding or streaming, the except and finally
\* clauses) and no client disconnect changes either.
C20_OnlyOwnersWrite ==
  [][/\ healthy_servers' # healthy_servers =>
          /\ mon_pc \in {"update", "locked"}
          /\ mon_pc' # mon_pc
          /\ rr_index' = rr_index
     /\ rr_index' # rr_index =>
          /\ \E p \in Procs : /\ pc[p] \in {"find", "step"}
                               /\ pc'[p] # pc[p]
                               /\ backend_server'[p] \in Backends
          /\ healthy_servers' = healthy_servers
     /\ \A h \in Clients :
          ( \/ /\ pc[h] \in {"recv", "selected", "read_request", "forward", "stream",
                              "except", "finally"}
                /\ pc'[h] # pc[h]
            \/ client_alive'[h] # client_alive[h]
            \/ client_out'[h] # client_out[h] )
          => (healthy_servers' = healthy_servers /\ rr_index' = rr_index)]_vars

\* A handler has ended after its backend refused the connect, and that
\* backend is still in the healthy set.
C20_Witness ==
  \E h \in Clients :
    /\ pc[h] = "done"
    /\ connect_result[h] = "refused"
    /\ backend_server[h] \in HealthySet

\* C21: at startup, before any probe has completed, the healthy set is the
\* whole configured backend list; a connection is answered 503, or its
\* selection returns None, only after probes have run (every backend has
\* been probed and removed), never merely because no probe has run yet.
C21_StartupAllHealthy ==
  /\ ever_probed = {} => HealthySet = Backends
  /\ \A h \in Clients :
       (backend_server[h] = None \/ \E i \in 1..Len(client_out[h]) : client_out[h][i] = R503)
         => ever_probed = Backends

\* Before any probe has completed a connection has been routed to a backend
\* that has never passed a health probe, and response bytes of that backend
\* have reached the client.
C21_Witness ==
  \E h \in Clients :
    /\ ever_probed = {}
    /\ pc[h] = "done"
    /\ connect_result[h] = "connected"
    /\ backend_server[h] \in Backends \ ever_passed
    /\ client_out[h] = <<Chunk(1)>>

====
